---- MODULE Spec2Model ----
(***************************************************************************)
(* Model of the diffusion gradient scheme handling of MRtrix               *)
(* (src/dwi/gradient.h): normalise_grad, guess_DW_directions,              *)
(* gen_direction_matrix, load_bvecs_bvals and get_DW_scheme, together with *)
(* the Exception descriptions of lib/exception.h.                          *)
(*                                                                         *)
(* Reals are modelled by integers; NaN is a value of its own.  The inputs  *)
(* of the specification Spec are vectors along one axis, whose Euclidean   *)
(* norm is an integer that divides every component, so that normalisation  *)
(* is exact.  Angles are counted in quarter turns (pi/2).                  *)
(* Matrices are sequences of rows; indices of the code (from 0) are        *)
(* shifted by one where a sequence is indexed.                             *)
(***************************************************************************)
EXTENDS Integers, Sequences, FiniteSets, TLC

VARIABLES
  header,   \* the Image::Header handed to the functions
  files,    \* the file system: path -> matrix held by the file
  opt,      \* App::get_options ("grad"): <<>> or << <<path>> >>
  config,   \* File::Config: the value of BValueThreshold, or NaN when unset
  grad,     \* the caller's Math::Matrix grad
  dwi,      \* the caller's std::vector<int> dwi
  bzero,    \* the caller's std::vector<int> bzero
  dirs,     \* the caller's direction matrix
  arg_threshold, \* the threshold last handed to guess_DW_directions
  err,      \* description of the Exception that left the last call, or <<>>
  log,      \* what the last call handed to the reporting functions
  fsops,    \* the file system calls of the last call, in order
  op        \* the last function called

vars == <<header, files, opt, config, grad, dwi, bzero, dirs, arg_threshold,
          err, log, fsops, op>>

----------------------------------------------------------------------------
(* Bounds of the model *)

\* largest magnitude of a direction component in the files
MaxComp == 2
\* number of volumes of the long series, above the 7 rows get_DW_scheme wants
ExtraVols == 1
\* number of data patterns the files are filled with
NumPatterns == 2

\* fewest rows get_DW_scheme accepts
MinRows == 7
\* number of columns of a gradient scheme
GradCols == 4
\* default of BValueThreshold
DefaultBValueThreshold == 10
\* log level of Exception::display in get_DW_scheme, and of debug()
DebugLevel == 3
\* log level of inform()
InfoLevel == 2

----------------------------------------------------------------------------
(* Values: IEEE arithmetic on the values the model uses *)

NaN == -(10^6)
IsNaN(x) == x = NaN

Abs(x) == IF x < 0 THEN -x ELSE x

Mul(a, b) == IF IsNaN(a) \/ IsNaN(b) THEN NaN ELSE a * b

\* a > b on floating point values: false when either is NaN
Greater(a, b) == ~IsNaN(a) /\ ~IsNaN(b) /\ a > b

\* the exact square root of a perfect square
Sqrt(s) == CHOOSE r \in 0..s : r * r = s

\* the exact quotient a / b, b # 0
Quot(a, b) == CHOOSE q \in -Abs(a)..Abs(a) : q * b = a

\* Math::norm of a vector
norm(v) ==
  IF \E i \in 1..Len(v) : IsNaN(v[i]) THEN NaN
  ELSE LET RECURSIVE SumSq(_)
           SumSq(i) == IF i = 0 THEN 0 ELSE v[i] * v[i] + SumSq(i - 1)
       IN Sqrt(SumSq(Len(v)))

----------------------------------------------------------------------------
(* Exceptions: description is a vector of messages, a message a sequence of
   string fragments (a concatenation) *)

\* Exception (const std::string& msg)
Exception(msg) == <<msg>>

\* no Exception thrown
NoException == <<>>

\* a call of a reporting function, or of Exception::display, at a log level
Report(level, msg) == [level |-> level, msg |-> msg]

\* Exception::display (log_level): every message of the description, at that level
display(E, level) == [i \in 1..Len(E) |-> Report(level, E[i])]

----------------------------------------------------------------------------
(* Matrices *)

rows(M) == Len(M)
columns(M) == IF Len(M) = 0 THEN 0 ELSE Len(M[1])

\* Math::Matrix::is_set
is_set(M) == rows(M) > 0 /\ columns(M) > 0

NoMatrix == <<>>

----------------------------------------------------------------------------
(* Paths: strings are sequences of characters *)

npos == 0

bvals_name == <<"b", "v", "a", "l", "s">>
bvecs_name == <<"b", "v", "e", "c", "s">>

\* std::string::find_last_of: the last position of c in s (from 1), or npos
find_last_of(s, c) ==
  IF \E i \in 1..Len(s) : s[i] = c
  THEN CHOOSE i \in 1..Len(s) : s[i] = c /\ \A j \in (i + 1)..Len(s) : s[j] # c
  ELSE npos

\* Path::dirname
dirname(name) ==
  LET i == find_last_of(name, "/")
  IN IF i = npos THEN <<>>
     ELSE IF i = 1 THEN <<"/">>
     ELSE SubSeq(name, 1, i - 1)

\* Path::join
join(first, second) ==
  IF first = <<>> THEN second
  ELSE IF first[Len(first)] # "/" THEN first \o <<"/">> \o second
  ELSE first \o second

\* Path::has_suffix
has_suffix(name, suffix) ==
  /\ Len(name) >= Len(suffix)
  /\ SubSeq(name, Len(name) - Len(suffix) + 1, Len(name)) = suffix

\* Path::is_file
is_file(fs, path) == path \in DOMAIN fs

\* header.name().substr (0, header.name().find_last_of ('.'))
prefix_of(name) ==
  LET i == find_last_of(name, ".")
  IN IF i = npos THEN name ELSE SubSeq(name, 1, i - 1)

----------------------------------------------------------------------------
(* load_bvecs_bvals *)

\* lines 128-140: where the pair is looked for, and what is found
locate(hdr, fs) ==
  LET dir_path == dirname(hdr.name)
      bvals_path == join(dir_path, bvals_name)
      bvecs_path == join(dir_path, bvecs_name)
      found_bvals == is_file(fs, bvals_path)
      found_bvecs == is_file(fs, bvecs_path)
      first == << <<"is_file", bvals_path>>, <<"is_file", bvecs_path>> >>
  IN IF ~found_bvals /\ ~found_bvecs
     THEN LET prefix == prefix_of(hdr.name)
              bvals2 == prefix \o <<"_">> \o bvals_name
              bvecs2 == prefix \o <<"_">> \o bvecs_name
          IN [bvals_path |-> bvals2, bvecs_path |-> bvecs2,
              found_bvals |-> is_file(fs, bvals2),
              found_bvecs |-> is_file(fs, bvecs2),
              fsops |-> first \o << <<"is_file", bvals2>>, <<"is_file", bvecs2>> >>]
     ELSE [bvals_path |-> bvals_path, bvecs_path |-> bvecs_path,
           found_bvals |-> found_bvals, found_bvecs |-> found_bvecs,
           fsops |-> first]

\* pairing_error with the two messages of a half pair exchanged
pairing_error_swapped(found_bvals, found_bvecs) ==
  IF found_bvals /\ ~found_bvecs
  THEN Exception(<<"found bvecs file but not bvals file">>)
  ELSE IF ~found_bvals /\ found_bvecs
  THEN Exception(<<"found bvals file but not bvecs file">>)
  ELSE IF ~found_bvals /\ ~found_bvecs
  THEN Exception(<<"could not find either bvecs or bvals gradient files">>)
  ELSE NoException

\* lines 142-147: the Exception of an incomplete pair, none when both are found
pairing_error(found_bvals, found_bvecs) ==
  IF found_bvals /\ ~found_bvecs
  THEN Exception(<<"found bvals file but not bvecs file">>)
  ELSE IF ~found_bvals /\ found_bvecs
  THEN Exception(<<"found bvecs file but not bvals file">>)
  ELSE IF ~found_bvals /\ ~found_bvecs
  THEN Exception(<<"could not find either bvecs or bvals gradient files">>)
  ELSE NoException

\* shape_error with the columns not compared with header.dim (3)
shape_error_no_dim(bvals, bvecs, hdr) ==
  IF rows(bvals) # 1 THEN Exception(<<"bvals file must contain 1 row only">>)
  ELSE IF rows(bvecs) # 3 THEN Exception(<<"bvecs file must contain exactly 3 rows">>)
  ELSE IF columns(bvals) # columns(bvecs)
  THEN Exception(<<"bvals and bvecs files must have same number of diffusion directions as DW-image">>)
  ELSE NoException

\* lines 153-157: the Exception of a badly shaped pair, none when it is well shaped
shape_error(bvals, bvecs, hdr) ==
  IF rows(bvals) # 1 THEN Exception(<<"bvals file must contain 1 row only">>)
  ELSE IF rows(bvecs) # 3 THEN Exception(<<"bvecs file must contain exactly 3 rows">>)
  ELSE IF columns(bvals) # columns(bvecs) \/ columns(bvals) # hdr.dim[4]
  THEN Exception(<<"bvals and bvecs files must have same number of diffusion directions as DW-image">>)
  ELSE NoException

\* Image::Stride::order (header, 0, 3): the axes 0..2 by increasing |stride|
order(hdr) ==
  LET ax(k) == CHOOSE a \in 0..2 :
                 Cardinality({b \in 0..2 : Abs(hdr.stride[b + 1]) < Abs(hdr.stride[a + 1])}) = k
  IN <<ax(0), ax(1), ax(2)>>

\* lines 162-168: G (n, order[k]) = stride (order[k]) > 0 ? bvecs (k,n) : -bvecs (k,n)
rectify(bvecs, hdr) ==
  LET ord == order(hdr)
      slot(a) == CHOOSE k \in 1..3 : ord[k] = a
  IN [n \in 1..columns(bvecs) |->
       [a \in 1..3 |->
          IF hdr.stride[a] > 0 THEN bvecs[slot(a - 1)][n] ELSE -bvecs[slot(a - 1)][n]]]

\* rotate with the rotation not transposed: grad_G = G * rotation
rotate_no_transpose(G, bvals, hdr) ==
  LET rotation == hdr.transform
  IN [n \in 1..Len(G) |->
       [j \in 1..GradCols |->
          IF j = GradCols THEN bvals[1][n]
          ELSE G[n][1] * rotation[1][j] + G[n][2] * rotation[2][j]
               + G[n][3] * rotation[3][j]]]

\* lines 171-176: grad_G = G * rotation^T, and column 3 = bvals.row (0)
rotate(G, bvals, hdr) ==
  LET rotation == hdr.transform
  IN [n \in 1..Len(G) |->
       [j \in 1..GradCols |->
          IF j = GradCols THEN bvals[1][n]
          ELSE G[n][1] * rotation[j][1] + G[n][2] * rotation[j][2]
               + G[n][3] * rotation[j][3]]]

\* lines 149-177: the located pair loaded, checked and converted
load_pair(g, hdr, bvals, bvecs, ops) ==
  IF shape_error(bvals, bvecs, hdr) # NoException
  THEN [grad |-> g, err |-> shape_error(bvals, bvecs, hdr), fsops |-> ops]
  ELSE [grad |-> rotate(rectify(bvecs, hdr), bvals, hdr), err |-> NoException, fsops |-> ops]

\* lines 142-177: what follows the search, loc being what the search found
load_located(g, hdr, fs, loc) ==
  IF pairing_error(loc.found_bvals, loc.found_bvecs) # NoException
  THEN [grad |-> g, err |-> pairing_error(loc.found_bvals, loc.found_bvecs),
        fsops |-> loc.fsops]
  ELSE load_pair(g, hdr, fs[loc.bvals_path], fs[loc.bvecs_path],
                 loc.fsops \o << <<"load", loc.bvals_path>>, <<"load", loc.bvecs_path>> >>)

\* load_bvecs_bvals (grad, header): g is grad as the caller hands it over
load_bvecs_bvals(g, hdr, fs) == load_located(g, hdr, fs, locate(hdr, fs))

----------------------------------------------------------------------------
(* normalise_grad *)

\* normalise_row with the rows of b-value zero left as they are
normalise_row_keep_b0(row) ==
  LET n == norm(SubSeq(row, 1, 3))
  IN [j \in 1..Len(row) |->
       IF j > 3 THEN row[j]
       ELSE IF row[GradCols] = 0 THEN row[j]
       ELSE IF IsNaN(n) \/ IsNaN(row[j]) THEN NaN
       ELSE IF n = 0 THEN NaN
       ELSE Quot(row[j], n)]

\* lines 51-54: the row scaled by 1/norm when its b-value is non-zero, by 0 otherwise.
\* 1/0 is +inf, and 0 * inf is NaN.
normalise_row(row) ==
  LET n == norm(SubSeq(row, 1, 3))
  IN [j \in 1..Len(row) |->
       IF j > 3 THEN row[j]
       ELSE IF row[GradCols] = 0 THEN Mul(row[j], 0)
       ELSE IF IsNaN(n) \/ IsNaN(row[j]) THEN NaN
       ELSE IF n = 0 THEN NaN
       ELSE Quot(row[j], n)]

\* normalise_grad (grad): in place
normalise_grad(g) ==
  IF columns(g) # GradCols
  THEN [grad |-> g, err |-> Exception(<<"invalid gradient matrix dimensions">>)]
  ELSE [grad |-> [i \in 1..rows(g) |-> normalise_row(g[i])], err |-> NoException]

----------------------------------------------------------------------------
(* guess_DW_directions *)

\* File::Config::get_float ("BValueThreshold", 10.0)
get_float(cfg) == IF IsNaN(cfg) THEN DefaultBValueThreshold ELSE cfg

\* classify with a row whose b-value is the threshold counted as a DWI
classify_at_least(g, threshold, want) ==
  LET RECURSIVE Upto(_)
      Upto(n) == IF n = 0 THEN <<>>
                 ELSE IF (Greater(g[n][GradCols], threshold)
                          \/ g[n][GradCols] = threshold) = want
                 THEN Append(Upto(n - 1), n - 1)
                 ELSE Upto(n - 1)
  IN Upto(rows(g))

\* lines 80-85: the indices i (from 0) of the rows of g, in order, that are
\* (want = TRUE) or are not (want = FALSE) above the threshold
classify(g, threshold, want) ==
  LET RECURSIVE Upto(_)
      Upto(n) == IF n = 0 THEN <<>>
                 ELSE IF Greater(g[n][GradCols], threshold) = want
                 THEN Append(Upto(n - 1), n - 1)
                 ELSE Upto(n - 1)
  IN Upto(rows(g))

\* guess_DW_directions (dwi, bzero, grad, bvalue_threshold): d and bz are the
\* vectors as the caller hands them over
guess_DW_directions(d, bz, g, bvalue_threshold, cfg) ==
  LET threshold == IF IsNaN(bvalue_threshold) THEN get_float(cfg) ELSE bvalue_threshold
  IN IF columns(g) # GradCols
     THEN [dwi |-> d, bzero |-> bz, log |-> <<>>,
           err |-> Exception(<<"invalid gradient encoding matrix: expecting 4 columns.">>)]
     ELSE LET nd == classify(g, threshold, TRUE)
              nb == classify(g, threshold, FALSE)
          IN [dwi |-> nd, bzero |-> nb, err |-> NoException,
              log |-> <<Report(InfoLevel,
                          <<"found ", ToString(Len(nd)), " diffusion-weighted volumes and ",
                            ToString(Len(nb)), " b=0 volumes">>)>>]

----------------------------------------------------------------------------
(* gen_direction_matrix *)

\* Math::atan2 (y, x), in quarter turns, of a vector along an axis
atan2(y, x) ==
  IF IsNaN(y) \/ IsNaN(x) THEN NaN
  ELSE CHOOSE q \in -1..2 :
         \/ q = 0 /\ y = 0 /\ x >= 0
         \/ q = 1 /\ y > 0 /\ x = 0
         \/ q = 2 /\ y = 0 /\ x < 0
         \/ q = -1 /\ y < 0 /\ x = 0

\* Math::acos (z / n), in quarter turns: 0/0 is NaN, and acos (NaN) is NaN
acos_ratio(z, n) ==
  IF IsNaN(z) \/ IsNaN(n) THEN NaN
  ELSE IF n = 0 /\ z = 0 THEN NaN
  ELSE 1 - Quot(z, n)

\* lines 104-106: azimuth and elevation of one row
direction_of(row) ==
  LET n == norm(SubSeq(row, 1, 3))
  IN <<atan2(row[2], row[1]), acos_ratio(row[3], n)>>

\* gen_direction_matrix (dirs, grad, dwi): no Exception is thrown
gen_direction_matrix(g, d) ==
  [dirs |-> [i \in 1..Len(d) |-> direction_of(g[d[i] + 1])], err |-> NoException]

----------------------------------------------------------------------------
(* get_DW_scheme *)

\* Math::Matrix::load (filename): the matrix of the file, an Exception when
\* there is no such file
load(fs, path) ==
  IF is_file(fs, path)
  THEN [grad |-> fs[path], err |-> NoException, fsops |-> << <<"load", path>> >>]
  ELSE [grad |-> NoMatrix, err |-> Exception(<<"cannot open file \"">> \o path \o <<"\"">>),
        fsops |-> << <<"load", path>> >>]

\* catch_load with the Exception caught dropped, not displayed
catch_load_discard(r, hdr) ==
  IF r.err # NoException
  THEN [grad |-> NoMatrix, fsops |-> r.fsops, log |-> <<>>,
        err |-> Exception(<<"no diffusion encoding found in image \"">>
                          \o hdr.name \o <<"\" or corresponding directory">>)]
  ELSE r @@ [log |-> <<>>]

\* lines 215-221: r is what load_bvecs_bvals did; its Exception is displayed
\* and another one thrown
catch_load(r, hdr) ==
  IF r.err # NoException
  THEN [grad |-> NoMatrix, fsops |-> r.fsops,
        log |-> display(r.err, DebugLevel),
        err |-> Exception(<<"no diffusion encoding found in image \"">>
                          \o hdr.name \o <<"\" or corresponding directory">>)]
  ELSE r @@ [log |-> <<>>]

\* find_scheme with the embedded scheme looked at before the option
find_scheme_embedded_first(hdr, fs, o) ==
  IF is_set(hdr.DW_scheme)
  THEN [grad |-> hdr.DW_scheme, err |-> NoException, fsops |-> <<>>, log |-> <<>>]
  ELSE IF Len(o) > 0
  THEN IF has_suffix(o[1][1], bvals_name) \/ has_suffix(o[1][1], bvecs_name)
       THEN load_bvecs_bvals(NoMatrix, hdr, fs) @@ [log |-> <<>>]
       ELSE load(fs, o[1][1]) @@ [log |-> <<>>]
  ELSE catch_load(load_bvecs_bvals(NoMatrix, hdr, fs), hdr)

\* lines 203-222: the matrix found, before its dimensions are checked
find_scheme(hdr, fs, o) ==
  IF Len(o) > 0
  THEN IF has_suffix(o[1][1], bvals_name) \/ has_suffix(o[1][1], bvecs_name)
       THEN load_bvecs_bvals(NoMatrix, hdr, fs) @@ [log |-> <<>>]
       ELSE load(fs, o[1][1]) @@ [log |-> <<>>]
  ELSE IF is_set(hdr.DW_scheme)
  THEN [grad |-> hdr.DW_scheme, err |-> NoException, fsops |-> <<>>, log |-> <<>>]
  ELSE catch_load(load_bvecs_bvals(NoMatrix, hdr, fs), hdr)

\* dimensions_error with the bound on the rows one too low
dimensions_error_one_less(g) ==
  IF rows(g) < MinRows - 1 \/ columns(g) # GradCols
  THEN Exception(<<"unexpected diffusion encoding matrix dimensions">>)
  ELSE NoException

\* lines 224-225
dimensions_error(g) ==
  IF rows(g) < MinRows \/ columns(g) # GradCols
  THEN Exception(<<"unexpected diffusion encoding matrix dimensions">>)
  ELSE NoException

\* line 199
searching == <<Report(DebugLevel, <<"searching for suitable gradient encoding...">>)>>

\* lines 224-231: f is what the search of lines 203-222 gave
check_and_normalise(f) ==
  IF f.err # NoException
  THEN [grad |-> NoMatrix, err |-> f.err, fsops |-> f.fsops, log |-> searching \o f.log]
  ELSE IF dimensions_error(f.grad) # NoException
  THEN [grad |-> NoMatrix, err |-> dimensions_error(f.grad), fsops |-> f.fsops,
        log |-> searching \o f.log]
  ELSE [grad |-> normalise_grad(f.grad).grad, err |-> normalise_grad(f.grad).err,
        fsops |-> f.fsops,
        log |-> searching \o f.log \o
                <<Report(InfoLevel,
                    <<"found ", ToString(rows(f.grad)), "x", ToString(columns(f.grad)),
                      " diffusion-weighted encoding">>)>>]

\* get_DW_scheme (header): grad is the matrix returned, when err is NoException
get_DW_scheme(hdr, fs, o) == check_and_normalise(find_scheme(hdr, fs, o))

----------------------------------------------------------------------------
(* The inputs: images, files and options *)

\* direction i of the data: along one axis, or null
Dir(i) ==
  LET D == << <<1, 0, 0>>, <<0, 1, 0>>, <<0, 0, MaxComp>>, <<0, 0, 0>>,
              <<-1, 0, 0>>, <<0, -MaxComp, 0>>, <<0, 0, 1>> >>
  IN D[(i % Len(D)) + 1]

\* b-value i of the data
BVal(i) ==
  LET B == <<0, 1000, 10, 11, 1000, 0, 5>>
  IN B[(i % Len(B)) + 1]

Patterns == 0..(NumPatterns - 1)

\* a bvecs file of r rows and c columns, a bvals file, and a scheme in MRtrix format
BvecsOf(r, c, p) == [k \in 1..r |-> [n \in 1..c |-> Dir(n - 1 + 3 * p)[((k - 1) % 3) + 1]]]
BvalsOf(r, c, p) == [k \in 1..r |-> [n \in 1..c |-> BVal(n - 1 + 3 * p)]]
SchemeOf(r, c, p) ==
  [n \in 1..r |-> [j \in 1..c |->
     IF j <= 3 THEN Dir(n - 1 + 3 * p)[j] ELSE IF j = GradCols THEN BVal(n - 1 + 3 * p) ELSE 0]]

LongVols == MinRows + ExtraVols

Identity == << <<1, 0, 0>>, <<0, 1, 0>>, <<0, 0, 1>> >>
\* quarter turns about z and about x
RotZ == << <<0, -1, 0>>, <<1, 0, 0>>, <<0, 0, 1>> >>
RotX == << <<1, 0, 0>>, <<0, 0, -1>>, <<0, 1, 0>> >>

\* strides of the three spatial axes: distinct magnitudes, either sign
Strides ==
  {s \in [1..3 -> {-3, -2, -1, 1, 2, 3}] : {Abs(s[a]) : a \in 1..3} = {1, 2, 3}}

ImageName == <<"b", "/", "i", ".", "m">>
BareName == <<"i", ".", "m">>
ExplicitDir == <<"a">>
GradFile == <<"a", "/", "g", ".", "b">>
ShortFile == <<"a", "/", "s", ".", "b">>
NarrowFile == <<"a", "/", "n", ".", "b">>
AbsentFile == <<"a", "/", "x", ".", "b">>

Header(name, n, stride, transform, scheme) ==
  [name |-> name, dim |-> <<2, 2, 2, n>>, stride |-> stride,
   transform |-> transform, DW_scheme |-> scheme]

\* the four files load_bvecs_bvals looks for next to the image
Candidates(name) ==
  [lit_bvals |-> join(dirname(name), bvals_name),
   lit_bvecs |-> join(dirname(name), bvecs_name),
   pre_bvals |-> prefix_of(name) \o <<"_">> \o bvals_name,
   pre_bvecs |-> prefix_of(name) \o <<"_">> \o bvecs_name]

CandidateKeys == {"lit_bvals", "lit_bvecs", "pre_bvals", "pre_bvecs"}

\* a file system: the candidates in `exist` next to the image, holding bvals
\* and bvecs as given (the prefixed pair holds the next pattern), and in the
\* directory of the option a complete pair and schemes in MRtrix format: well
\* shaped, of too few rows, of too few columns
FileSystem(name, exist, bvals, bvecs, n, p) ==
  LET c == Candidates(name)
      content == [lit_bvals |-> bvals, lit_bvecs |-> bvecs,
                  pre_bvals |-> BvalsOf(1, n, p + 1), pre_bvecs |-> BvecsOf(3, n, p + 1)]
      near == {c[k] : k \in exist}
      far == {join(ExplicitDir, bvals_name), join(ExplicitDir, bvecs_name),
              GradFile, ShortFile, NarrowFile}
  IN [path \in near \cup far |->
        IF path = GradFile THEN SchemeOf(n, GradCols, p + 2)
        ELSE IF path = ShortFile THEN SchemeOf(MinRows - 1, GradCols, p + 2)
        ELSE IF path = NarrowFile THEN SchemeOf(n, GradCols - 1, p + 2)
        ELSE IF path = join(ExplicitDir, bvals_name) THEN BvalsOf(1, n, p + 2)
        ELSE IF path = join(ExplicitDir, bvecs_name) THEN BvecsOf(3, n, p + 2)
        ELSE content[CHOOSE k \in exist : c[k] = path]]

Options ==
  {<<>>, << <<join(ExplicitDir, bvals_name)>> >>, << <<join(ExplicitDir, bvecs_name)>> >>,
   << <<GradFile>> >>, << <<ShortFile>> >>, << <<NarrowFile>> >>, << <<AbsentFile>> >>}

\* embedded schemes: unset, well shaped, too few rows, too many columns
Embedded ==
  {NoMatrix, SchemeOf(MinRows, GradCols, 0), SchemeOf(MinRows - 1, GradCols, 0),
   SchemeOf(LongVols, GradCols + 1, 0)}

Env(h, fs, o, cfg) == [header |-> h, files |-> fs, opt |-> o, config |-> cfg]

\* which source is taken: every option, embedded scheme and set of files found
EnvsSource ==
  {Env(Header(ImageName, MinRows, <<1, 2, 3>>, Identity, scheme),
       FileSystem(ImageName, exist, BvalsOf(1, MinRows, 0), BvecsOf(3, MinRows, 0), MinRows, 0),
       o, NaN) :
     scheme \in Embedded, exist \in SUBSET CandidateKeys, o \in Options}

\* badly shaped pairs
EnvsShape ==
  {Env(Header(ImageName, n, <<1, 2, 3>>, Identity, NoMatrix),
       FileSystem(ImageName, {"lit_bvals", "lit_bvecs"},
                  BvalsOf(r1, c1, 0), BvecsOf(r3, c3, 0), n, 0),
       o, NaN) :
     n \in {MinRows, LongVols}, r1 \in {1, 2}, r3 \in {2, 3, 4},
     c1 \in {MinRows, LongVols}, c3 \in {MinRows, LongVols},
     o \in {<<>>, << <<join(ExplicitDir, bvals_name)>> >>}}

\* images of several orientations, short and long series, with and without directory
EnvsGeometry ==
  {Env(Header(name, n, stride, transform, NoMatrix),
       FileSystem(name, exist, BvalsOf(1, n, p), BvecsOf(3, n, p), n, p),
       <<>>, NaN) :
     name \in {ImageName, BareName}, n \in {2, LongVols},
     stride \in {<<1, 2, 3>>, <<-2, 1, 3>>, <<3, -1, -2>>},
     transform \in {Identity, RotZ}, p \in Patterns,
     exist \in {{"lit_bvals", "lit_bvecs"}, {"pre_bvals", "pre_bvecs"}}}

\* the configuration file sets BValueThreshold
EnvsConfig ==
  {Env(Header(ImageName, LongVols, <<1, 2, 3>>, RotX, scheme),
       FileSystem(ImageName, {"lit_bvals", "lit_bvecs"},
                  BvalsOf(1, LongVols, p), BvecsOf(3, LongVols, p), LongVols, p),
       <<>>, cfg) :
     scheme \in {NoMatrix, SchemeOf(LongVols, GradCols, 1)}, p \in Patterns,
     cfg \in {5, 1000}}

Envs == EnvsSource \cup EnvsShape \cup EnvsGeometry \cup EnvsConfig

\* thresholds handed to guess_DW_directions: NaN is the default argument
Thresholds == {NaN, 1000}

----------------------------------------------------------------------------
(* The state machine: the image, files and options are given, and the caller
   calls the functions in any order until one throws *)

Blank ==
  /\ dwi = <<>>
  /\ bzero = <<>>
  /\ dirs = NoMatrix
  /\ arg_threshold = NaN
  /\ err = NoException
  /\ log = <<>>
  /\ fsops = <<>>
  /\ op = "none"

Init ==
  /\ \E e \in Envs :
       /\ header = e.header
       /\ files = e.files
       /\ opt = e.opt
       /\ config = e.config
  /\ grad = NoMatrix
  /\ Blank

\* grad = get_DW_scheme (header)
Call_get_DW_scheme ==
  /\ err = NoException
  /\ \E r \in {get_DW_scheme(header, files, opt)} :
        /\ grad' = IF r.err = NoException THEN r.grad ELSE grad
        /\ err' = r.err
        /\ log' = r.log
        /\ fsops' = r.fsops
  /\ op' = "get_DW_scheme"
  /\ UNCHANGED <<header, files, opt, config, dwi, bzero, dirs, arg_threshold>>

\* load_bvecs_bvals (grad, header)
Call_load_bvecs_bvals ==
  /\ err = NoException
  /\ \E r \in {load_bvecs_bvals(grad, header, files)} :
        /\ grad' = r.grad
        /\ err' = r.err
        /\ fsops' = r.fsops
  /\ log' = <<>>
  /\ op' = "load_bvecs_bvals"
  /\ UNCHANGED <<header, files, opt, config, dwi, bzero, dirs, arg_threshold>>

\* normalise_grad (grad)
Call_normalise_grad ==
  /\ err = NoException
  /\ \E r \in {normalise_grad(grad)} :
        /\ grad' = r.grad
        /\ err' = r.err
  /\ log' = <<>>
  /\ fsops' = <<>>
  /\ op' = "normalise_grad"
  /\ UNCHANGED <<header, files, opt, config, dwi, bzero, dirs, arg_threshold>>

\* guess_DW_directions (dwi, bzero, grad, bvalue_threshold)
Call_guess_DW_directions ==
  /\ err = NoException
  /\ \E t \in Thresholds :
       \E r \in {guess_DW_directions(dwi, bzero, grad, t, config)} :
          /\ dwi' = r.dwi
          /\ bzero' = r.bzero
          /\ err' = r.err
          /\ log' = r.log
          /\ arg_threshold' = t
  /\ fsops' = <<>>
  /\ op' = "guess_DW_directions"
  /\ UNCHANGED <<header, files, opt, config, grad, dirs>>

\* gen_direction_matrix (dirs, grad, dwi), called with the indices of rows of grad
Call_gen_direction_matrix ==
  /\ err = NoException
  /\ columns(grad) = GradCols
  /\ \A i \in 1..Len(dwi) : dwi[i] < rows(grad)
  /\ \E r \in {gen_direction_matrix(grad, dwi)} :
        /\ dirs' = r.dirs
        /\ err' = r.err
  /\ log' = <<>>
  /\ fsops' = <<>>
  /\ op' = "gen_direction_matrix"
  /\ UNCHANGED <<header, files, opt, config, grad, dwi, bzero, arg_threshold>>

Next ==
  \/ Call_get_DW_scheme
  \/ Call_load_bvecs_bvals
  \/ Call_normalise_grad
  \/ Call_guess_DW_directions
  \/ Call_gen_direction_matrix

Spec == Init /\ [][Next]_vars

----------------------------------------------------------------------------
(* load_bvecs_bvals on its own: images of every orientation, transforms that
   are no rotation, directions off the axes, and a matrix grad that holds
   something before the call *)

\* direction i of the raw data
RawDir(i) ==
  LET D == << <<1, 2, 3>>, <<-1, 0, MaxComp>>, <<MaxComp, -3, 1>>, <<0, 0, 0>> >>
  IN D[(i % Len(D)) + 1]

RawBvecsOf(c, p) == [k \in 1..3 |-> [n \in 1..c |-> RawDir(n - 1 + p)[k]]]

Shear == << <<1, 2, 0>>, <<0, 1, 3>>, <<-1, 0, 1>> >>

EnvsRectify ==
  {Env(Header(ImageName, n, stride, transform, NoMatrix),
       FileSystem(ImageName, {"lit_bvals", "lit_bvecs"},
                  BvalsOf(1, n, p), RawBvecsOf(n, p), n, p),
       <<>>, NaN) :
     n \in {1, 3}, stride \in Strides, transform \in {Identity, RotZ, Shear},
     p \in Patterns}

EnvsLocate ==
  {Env(Header(name, MinRows, <<1, 2, 3>>, Identity, NoMatrix),
       FileSystem(name, exist, BvalsOf(1, MinRows, 0), BvecsOf(3, MinRows, 0), MinRows, 0),
       <<>>, NaN) :
     name \in {ImageName, BareName}, exist \in SUBSET CandidateKeys}

EnvsLoad == EnvsRectify \cup EnvsLocate \cup {e \in EnvsShape : e.opt = <<>>}

InitLoad ==
  /\ \E e \in EnvsLoad :
       /\ header = e.header
       /\ files = e.files
       /\ opt = e.opt
       /\ config = e.config
  /\ grad \in {NoMatrix, SchemeOf(2, GradCols, 1)}
  /\ Blank

NextLoad == Call_load_bvecs_bvals

SpecLoad == InitLoad /\ [][NextLoad]_vars

----------------------------------------------------------------------------
(* Properties *)

EncodingNotFound ==
  Exception(<<"no diffusion encoding found in image \"">> \o header.name
            \o <<"\" or corresponding directory">>)

ShapeInvalid == Exception(<<"unexpected diffusion encoding matrix dimensions">>)

SidecarOption ==
  /\ Len(opt) > 0
  /\ has_suffix(opt[1][1], bvals_name) \/ has_suffix(opt[1][1], bvecs_name)

\* the paths the last call looked at or read
Touched == {fsops[i][2] : i \in 1..Len(fsops)}

\* C1: in get_DW_scheme an option -grad is used whether or not the header
\* embeds a scheme: what the call does is what it does on the same header
\* with no embedded scheme, and a file in MRtrix format given by the option
\* is the one file read.  With no option and an embedded scheme, the embedded
\* scheme is the matrix checked and normalised, and no file is looked for or
\* read.
C1_ResolverPrecedence ==
  op = "get_DW_scheme" =>
    /\ Len(opt) > 0 =>
         /\ \E r \in {get_DW_scheme([header EXCEPT !.DW_scheme = NoMatrix], files, opt)} :
              /\ err = r.err
              /\ fsops = r.fsops
              /\ log = r.log
              /\ err = NoException => grad = r.grad
         /\ fsops # <<>>
         /\ ~SidecarOption =>
              /\ fsops = << <<"load", opt[1][1]>> >>
              /\ err = NoException => grad = normalise_grad(files[opt[1][1]]).grad
    /\ Len(opt) = 0 /\ is_set(header.DW_scheme) =>
         /\ fsops = <<>>
         /\ err = NoException => grad = normalise_grad(header.DW_scheme).grad
         /\ err # NoException => err = ShapeInvalid /\ dimensions_error(header.DW_scheme) = err

\* C1 witness: an option and an embedded scheme, and the file of the option returned
C1_Witness ==
  /\ op = "get_DW_scheme"
  /\ opt = << <<GradFile>> >>
  /\ is_set(header.DW_scheme)
  /\ err = NoException
  /\ grad # normalise_grad(header.DW_scheme).grad

\* C2: when the option ends with bvals or bvecs, every file get_DW_scheme
\* looks for or reads is in the directory of the path the option gives.
C2_ExplicitDirectoryUsed ==
  op = "get_DW_scheme" /\ SidecarOption =>
    \A path \in Touched : dirname(path) = dirname(opt[1][1])

\* C3: with no option and no embedded scheme, a load_bvecs_bvals that throws
\* makes get_DW_scheme throw "no diffusion encoding found in image ..." after
\* every message of the Exception caught was displayed at level 3; and that is
\* the one case get_DW_scheme throws this: with an option ending with bvals or
\* bvecs the Exception of load_bvecs_bvals leaves get_DW_scheme as it is.
C3_ComposedFailure ==
  op = "get_DW_scheme" =>
    \E side \in {load_bvecs_bvals(NoMatrix, header, files)} :
      /\ Len(opt) = 0 /\ ~is_set(header.DW_scheme) /\ side.err # NoException =>
           /\ err = EncodingNotFound
           /\ \A i \in 1..Len(side.err) :
                \E j \in 1..Len(log) : log[j] = Report(DebugLevel, side.err[i])
      /\ err = EncodingNotFound =>
           Len(opt) = 0 /\ ~is_set(header.DW_scheme) /\ side.err # NoException
      /\ SidecarOption /\ side.err # NoException => err = side.err
      /\ Len(opt) > 0 /\ ~SidecarOption /\ ~is_file(files, opt[1][1]) =>
           err = load(files, opt[1][1]).err

\* C3 witness: only bvals lies next to the image, and get_DW_scheme threw
C3_Witness ==
  /\ op = "get_DW_scheme"
  /\ err = EncodingNotFound
  /\ \E j \in 1..Len(log) :
       log[j] = Report(DebugLevel, <<"found bvals file but not bvecs file">>)

BvalsOnly == Exception(<<"found bvals file but not bvecs file">>)
BvecsOnly == Exception(<<"found bvecs file but not bvals file">>)
NoneFound == Exception(<<"could not find either bvecs or bvals gradient files">>)

\* which of the four files next to the image exist
Exists(key) == is_file(files, Candidates(header.name)[key])

\* the files the last call read
Loaded == {fsops[i][2] : i \in {j \in 1..Len(fsops) : fsops[j][1] = "load"}}

\* C4: when one of the files named bvals and bvecs is absent and both files
\* <prefix>_bvals and <prefix>_bvecs exist, load_bvecs_bvals looks for the
\* prefixed pair, reads it and does not throw for an incomplete pair.
C4_FallbackWhenEitherAbsent ==
  (/\ op = "load_bvecs_bvals"
   /\ ~Exists("lit_bvals") \/ ~Exists("lit_bvecs")
   /\ Exists("pre_bvals") /\ Exists("pre_bvecs")) =>
    /\ err \notin {BvalsOnly, BvecsOnly, NoneFound}
    /\ Loaded = {Candidates(header.name).pre_bvals, Candidates(header.name).pre_bvecs}

OnlyBvalsFound ==
  \/ Exists("lit_bvals") /\ ~Exists("lit_bvecs")
  \/ ~Exists("lit_bvals") /\ ~Exists("lit_bvecs") /\ Exists("pre_bvals") /\ ~Exists("pre_bvecs")

OnlyBvecsFound ==
  \/ ~Exists("lit_bvals") /\ Exists("lit_bvecs")
  \/ ~Exists("lit_bvals") /\ ~Exists("lit_bvecs") /\ ~Exists("pre_bvals") /\ Exists("pre_bvecs")

NeitherFound == \A key \in CandidateKeys : ~Exists(key)

\* C5: a call of load_bvecs_bvals throws "found bvals file but not bvecs
\* file" when bvals alone is found (of the files named bvals and bvecs, or,
\* when neither of these exists, of the prefixed ones), "found bvecs file but
\* not bvals file" when bvecs alone is found, and "could not find either bvecs
\* or bvals gradient files" when none of the four exists; in the three cases no
\* file is read and grad is left as it was.
C5_PairingErrors ==
  [][op' = "load_bvecs_bvals" =>
       /\ OnlyBvalsFound => err' = BvalsOnly
       /\ OnlyBvecsFound => err' = BvecsOnly
       /\ NeitherFound => err' = NoneFound
       /\ OnlyBvalsFound \/ OnlyBvecsFound \/ NeitherFound =>
            /\ grad' = grad
            /\ \A i \in 1..Len(fsops') : fsops'[i][1] # "load"
       /\ ~(OnlyBvalsFound \/ OnlyBvecsFound \/ NeitherFound) =>
            err' \notin {BvalsOnly, BvecsOnly, NoneFound}]_vars

\* C5 witness: <prefix>_bvecs alone exists, and grad still holds what it held
C5_Witness ==
  /\ op = "load_bvecs_bvals"
  /\ err = BvecsOnly
  /\ ~Exists("lit_bvecs") /\ Exists("pre_bvecs")
  /\ grad # NoMatrix

\* a matrix as normalise_grad leaves it: a row of b-value zero has the null
\* direction, any other row a direction of norm 1, or NaN where it was null
Normalised(g) ==
  \A i \in 1..rows(g) :
    IF g[i][GradCols] = 0 THEN SubSeq(g[i], 1, 3) = <<0, 0, 0>>
    ELSE \/ SubSeq(g[i], 1, 3) = <<NaN, NaN, NaN>>
         \/ /\ \A j \in 1..3 : ~IsNaN(g[i][j])
            /\ g[i][1] * g[i][1] + g[i][2] * g[i][2] + g[i][3] * g[i][3] = 1

\* C6: a call of get_DW_scheme that returns gives a matrix of at least 7 rows
\* and exactly 4 columns that is normalised, whichever source it came from;
\* when the matrix found has fewer than 7 rows or not 4 columns the call
\* throws "unexpected diffusion encoding matrix dimensions" and the caller's
\* grad is left as it was.
C6_ResolvedShape ==
  [][op' = "get_DW_scheme" =>
       \E f \in {find_scheme(header, files, opt)} :
         /\ err' = NoException =>
              /\ rows(grad') >= MinRows
              /\ \A i \in 1..rows(grad') : Len(grad'[i]) = GradCols
              /\ Normalised(grad')
              /\ rows(grad') = rows(f.grad)
              /\ \A i \in 1..rows(grad') : grad'[i][GradCols] = f.grad[i][GradCols]
         /\ (f.err = NoException /\ (rows(f.grad) < 7 \/ columns(f.grad) # 4)) =>
              /\ err' = ShapeInvalid
              /\ grad' = grad]_vars

\* C6 witness: a pair next to the image was resolved, and a direction of
\* norm 2 in it has norm 1 in the matrix returned
C6_Witness ==
  /\ op = "get_DW_scheme"
  /\ err = NoException
  /\ Len(opt) = 0 /\ ~is_set(header.DW_scheme)
  /\ \E n \in 1..rows(grad) :
       /\ \E k \in 1..3 : Abs(files[locate(header, files).bvecs_path][k][n]) = MaxComp
       /\ grad[n][GradCols] # 0

\* the image and the files of the scenario
Scenario ==
  /\ header.dim[4] = 2
  /\ order(header) = <<0, 1, 2>>
  /\ \A a \in 1..3 : header.stride[a] > 0
  /\ header.transform = Identity
  /\ Len(opt) = 0 /\ ~is_set(header.DW_scheme)
  /\ IsNaN(config)
  /\ \E loc \in {locate(header, files)} :
       /\ loc.found_bvals /\ loc.found_bvecs
       /\ files[loc.bvecs_path] = << <<1, 0>>, <<0, 1>>, <<0, 0>> >>
       /\ files[loc.bvals_path] = << <<0, 1000>> >>

\* C7 as it stands: in the scenario get_DW_scheme returns the rows (1,0,0,0)
\* and (0,1,0,1000).
C7_ScenarioResolved ==
  Scenario /\ op = "get_DW_scheme" =>
    err = NoException /\ grad = << <<1, 0, 0, 0>>, <<0, 1, 0, 1000>> >>

\* C7 amended: in the scenario get_DW_scheme throws "unexpected diffusion
\* encoding matrix dimensions", the matrix having 2 rows; load_bvecs_bvals
\* gives the rows (1,0,0,0) and (0,1,0,1000), normalise_grad makes of them
\* (0,0,0,0) and (0,1,0,1000), and guess_DW_directions with the default
\* threshold gives bzero = [0] and dwi = [1] on either matrix.
C7_ScenarioAmended ==
  Scenario =>
    /\ op = "get_DW_scheme" => err = ShapeInvalid
    /\ op = "load_bvecs_bvals" =>
         err = NoException /\ grad = << <<1, 0, 0, 0>>, <<0, 1, 0, 1000>> >>
    /\ op = "normalise_grad" /\ err = NoException =>
         grad = << <<0, 0, 0, 0>>, <<0, 1, 0, 1000>> >>
    /\ op = "guess_DW_directions" /\ err = NoException /\ IsNaN(arg_threshold) =>
         bzero = <<0>> /\ dwi = <<1>>

\* C7 witness: the pair of the scenario loaded, normalised and classified
C7_Witness ==
  /\ Scenario
  /\ op = "guess_DW_directions"
  /\ IsNaN(arg_threshold)
  /\ grad = << <<0, 0, 0, 0>>, <<0, 1, 0, 1000>> >>
  /\ dwi = <<1>>

\* C8: gen_direction_matrix throws when a row that dwi selects has a
\* direction of norm 0.
C8_DegenerateDirectionFails ==
  (/\ op = "gen_direction_matrix"
   /\ \E i \in 1..Len(dwi) : SubSeq(grad[dwi[i] + 1], 1, 3) = <<0, 0, 0>>) =>
    err # NoException

\* the pair a call of load_bvecs_bvals finds, when it finds both files
PairFound == locate(header, files).found_bvals /\ locate(header, files).found_bvecs
FoundBvals == files[locate(header, files).bvals_path]
FoundBvecs == files[locate(header, files).bvecs_path]

BvalsRows == Exception(<<"bvals file must contain 1 row only">>)
BvecsRows == Exception(<<"bvecs file must contain exactly 3 rows">>)
ColumnsDiffer ==
  Exception(<<"bvals and bvecs files must have same number of diffusion directions as DW-image">>)

BadShape ==
  \/ Len(FoundBvals) # 1
  \/ Len(FoundBvecs) # 3
  \/ Len(FoundBvals[1]) # Len(FoundBvecs[1])
  \/ Len(FoundBvals[1]) # header.dim[4]

\* C9: a call of load_bvecs_bvals that finds a pair throws when bvals has
\* not 1 row, or bvecs has not 3 rows, or their numbers of columns differ or
\* are not header.dim (3), and then leaves grad as it was; otherwise it does
\* not throw and grad has header.dim (3) rows of 4 columns each.
C9_ShapeInvariant ==
  [][(op' = "load_bvecs_bvals" /\ PairFound) =>
       /\ BadShape =>
            /\ err' \in {BvalsRows, BvecsRows, ColumnsDiffer}
            /\ grad' = grad
       /\ Len(FoundBvals) # 1 => err' = BvalsRows
       /\ ~BadShape =>
            /\ err' = NoException
            /\ rows(grad') = header.dim[4]
            /\ \A n \in 1..rows(grad') : Len(grad'[n]) = 4]_vars

\* C9 witness: bvals and bvecs have as many columns as each other, not as
\* many as the image has volumes; the call threw and grad holds what it held
C9_Witness ==
  /\ op = "load_bvecs_bvals"
  /\ PairFound
  /\ Len(FoundBvals) = 1 /\ Len(FoundBvecs) = 3
  /\ Len(FoundBvals[1]) = Len(FoundBvecs[1])
  /\ Len(FoundBvals[1]) # header.dim[4]
  /\ err = ColumnsDiffer
  /\ grad # NoMatrix

\* C10: after a call of load_bvecs_bvals that does not throw, with order the
\* axes 0..2 by increasing |stride|, a permutation, and
\* G[n, order[k]] = bvecs[k,n] where the stride of axis order[k] is positive,
\* -bvecs[k,n] where not, row n of grad holds in its columns 0..2 row n of G
\* times the transpose of the transform, and in column 3 bvals[n].
C10_Rectification ==
  (op = "load_bvecs_bvals" /\ err = NoException) =>
    \E ord \in {order(header)} :
      /\ {ord[k] : k \in 1..3} = {0, 1, 2}
      /\ rows(grad) = Len(FoundBvecs[1])
      /\ \A n \in 1..rows(grad) :
           /\ grad[n][4] = FoundBvals[1][n]
           /\ \A j \in 1..3 :
                grad[n][j] =
                  (IF header.stride[ord[1] + 1] > 0 THEN 1 ELSE -1)
                    * FoundBvecs[1][n] * header.transform[j][ord[1] + 1]
                  + (IF header.stride[ord[2] + 1] > 0 THEN 1 ELSE -1)
                    * FoundBvecs[2][n] * header.transform[j][ord[2] + 1]
                  + (IF header.stride[ord[3] + 1] > 0 THEN 1 ELSE -1)
                    * FoundBvecs[3][n] * header.transform[j][ord[3] + 1]

\* C10 witness: axes reordered, one of them inverted, a transform that is not
\* symmetric, and three volumes
C10_Witness ==
  /\ op = "load_bvecs_bvals"
  /\ err = NoException
  /\ order(header) = <<2, 0, 1>>
  /\ header.stride[1] < 0
  /\ header.transform = Shear
  /\ rows(grad) = 3

----------------------------------------------------------------------------
(* guess_DW_directions on its own: matrices of any b-values, of 3, 4 and 5
   columns, and vectors dwi and bzero that hold something before the call *)

\* most rows of a matrix handed to guess_DW_directions
MaxGuessRows == 3

\* b-values on both sides of the thresholds, and at them
GuessBValues == {0, 5, DefaultBValueThreshold, DefaultBValueThreshold + 1, 1000, NaN}

\* the matrices of r rows and c columns with these b-values in column 3
GuessMatrices(r, c) ==
  {[n \in 1..r |-> [j \in 1..c |->
      IF j = 1 THEN 1 ELSE IF j = GradCols THEN b[n] ELSE 0]] :
     b \in [1..r -> GuessBValues]}

GuessGrads ==
  UNION {GuessMatrices(r, GradCols) : r \in 0..MaxGuessRows}
    \cup UNION {GuessMatrices(r, c) : r \in {1, 2}, c \in {GradCols - 1, GradCols + 1}}

InitGuess ==
  /\ header = Header(ImageName, 2, <<1, 2, 3>>, Identity, NoMatrix)
  /\ files = FileSystem(ImageName, {}, BvalsOf(1, 2, 0), BvecsOf(3, 2, 0), 2, 0)
  /\ opt = <<>>
  /\ config \in {NaN, 5, 1000}
  /\ grad \in GuessGrads
  /\ \E prev \in {<<>>, <<0, 1, 2, 3, 4>>} : dwi = prev /\ bzero = prev
  /\ dirs = NoMatrix
  /\ arg_threshold = NaN
  /\ err = NoException
  /\ log = <<>>
  /\ fsops = <<>>
  /\ op = "none"

NextGuess == Call_guess_DW_directions

SpecGuess == InitGuess /\ [][NextGuess]_vars

\* the threshold the last call of guess_DW_directions compared with
ThresholdUsed ==
  IF ~IsNaN(arg_threshold) THEN arg_threshold
  ELSE IF ~IsNaN(config) THEN config
  ELSE 10

\* row i (from 0) of grad has a b-value above the threshold
Above(i) ==
  /\ ~IsNaN(grad[i + 1][4])
  /\ grad[i + 1][4] > ThresholdUsed

Increasing(seq) == \A k \in 1..(Len(seq) - 1) : seq[k] < seq[k + 1]

Members(seq) == {seq[k] : k \in 1..Len(seq)}

FourColumns == rows(grad) = 0 \/ \A n \in 1..rows(grad) : Len(grad[n]) = 4

\* C11: after a call of guess_DW_directions on a matrix of 4 columns, dwi
\* holds the indices of the rows whose b-value is above the threshold and
\* bzero the indices of all other rows (a b-value equal to the threshold
\* among them), each index once, in increasing order, and nothing else: what
\* the vectors held before is gone.  On a matrix that has rows of another
\* number of columns the call throws.
C11_Classification ==
  op = "guess_DW_directions" =>
    /\ (rows(grad) > 0 /\ FourColumns) =>
         /\ err = NoException
         /\ Members(dwi) = {i \in 0..(rows(grad) - 1) : Above(i)}
         /\ Members(bzero) = {i \in 0..(rows(grad) - 1) : ~Above(i)}
         /\ Members(dwi) \cap Members(bzero) = {}
         /\ Increasing(dwi) /\ Increasing(bzero)
         /\ Len(dwi) + Len(bzero) = rows(grad)
    /\ ~FourColumns =>
         err = Exception(<<"invalid gradient encoding matrix: expecting 4 columns.">>)

\* C11 witness: the default threshold; a row of b-value 10 is in bzero, a row
\* of b-value 11 is in dwi, and the five indices held before are gone
C11_Witness ==
  /\ op = "guess_DW_directions"
  /\ err = NoException
  /\ IsNaN(arg_threshold) /\ IsNaN(config)
  /\ rows(grad) = 2
  /\ grad[1][4] = 10 /\ grad[2][4] = 11
  /\ bzero = <<0>> /\ dwi = <<1>>

====
